---- MODULE Spec2Model ----
(***************************************************************************)
(* Model of src/src/components/PDFViewer.tsx: the session state of the     *)
(* PDFViewer component (template mode, displayed PDF, template bytes,      *)
(* field list, parsed rows), its event handlers, and generatePDFs as an    *)
(* asynchronous process that suspends at every await.                      *)
(***************************************************************************)
EXTENDS Integers, Sequences, FiniteSets, TLC

\* ------------------------------------------------------------------ bounds
\* Longest field list the clicks may build.
MaxFields == 2

\* ---------------------------------------------------------- nullable values
\* `T | null` of the useState declarations: null is the empty tuple, a
\* present value v is the one-element tuple <<v>>.
Null == <<>>
Some(v) == <<v>>
IsNull(o) == o = Null
Val(o) == o[1]

\* ------------------------------------------------------------------ inputs
\* A page of a PDF: its size and the text operations drawn on it so far.
Page(w, h) == [width |-> w, height |-> h, drawn |-> <<>>]

\* Files the user may drop: a two-page PDF, and a file that is no PDF
\* (PDFDocument.load rejects its bytes).
PdfFiles ==
    { [name |-> "letter.pdf", valid |-> TRUE,  pages |-> <<Page(600, 800), Page(400, 500)>>],
      [name |-> "broken.pdf", valid |-> FALSE, pages |-> <<>>] }

\* file.arrayBuffer(): the content of the file, without its name.
arrayBuffer(file) == [valid |-> file.valid, pages |-> file.pages]

\* URL.createObjectURL(file)
createObjectURL(file) == file.name

\* A text value that Helvetica's WinAnsi encoding cannot encode; it stands
\* for a string holding such a character (drawText throws on it).
Unencodable == "U+674E"

\* A row as Papa.parse (header: true) builds it: the columns in header
\* order, each a <<key, value>> pair.  A record that is shorter than the
\* header lacks the trailing columns.
CsvHeaderOnly == <<>>
CsvComplete == << << <<"name", "Alice">>, <<"email", "a@x.org">> >>,
                  << <<"name", "Bob">> >> >>
CsvBadMiddle == << << <<"name", "Alice">> >>,
                   << <<"name", Unencodable>> >>,
                   << <<"name", "Bob">> >> >>
CsvFiles == { CsvHeaderOnly, CsvComplete, CsvBadMiddle }

\* getBoundingClientRect() of the page container.
Rect == [left |-> 0, top |-> 50, width |-> 800, height |-> 600]

\* The clicks: the pointer position (clientX, clientY) and what prompt()
\* then returns -- a name, the empty string, or null on cancel.
Clicks ==
    { [clientX |-> 80,  clientY |-> 110, answer |-> Some("name")],
      [clientX |-> 400, clientY |-> 350, answer |-> Some("email")],
      [clientX |-> 400, clientY |-> 110, answer |-> Some("constructor")],
      [clientX |-> 80,  clientY |-> 350, answer |-> Some("")],
      [clientX |-> 400, clientY |-> 350, answer |-> Null] }

\* ----------------------------------------------------------------- state
VARIABLES
    pdfFile,            \* useState<string | null>: URL of the displayed PDF
    templateFields,     \* useState<TemplateField[]>
    csvData,            \* useState<any[]>: the parsed rows
    isTemplateMode,     \* useState(false)
    templatePdfBytes,   \* useState<ArrayBuffer | null>
    pendingRead,        \* onDrop suspended at `await file.arrayBuffer()`
    pendingParse,       \* Papa.parse started, `complete` not yet called
    invocation,         \* the generatePDFs call: its closure, locals and effects
    drops,              \* history: the drops made, with the mode at drop time
    ignoredClick        \* history: a click was made outside template mode

vars == << pdfFile, templateFields, csvData, isTemplateMode, templatePdfBytes,
           pendingRead, pendingParse, invocation, drops, ignoredClick >>

sessionState == << templatePdfBytes, templateFields, csvData >>

\* ------------------------------------------------------- what is rendered
\* Line 159: the dropzone is rendered while no PDF is displayed, the page
\* container (with the click binding) once one is.
DropzoneRendered == IsNull(pdfFile)
PageRendered == ~IsNull(pdfFile)

\* Lines 135-156: the CSV input and the Generate button exist only in
\* template mode.
TemplateControlsRendered == isTemplateMode

\* The disabled test without the row-list operand.
GenerateButtonDisabledNoRows ==
    IsNull(templatePdfBytes) \/ Len(templateFields) = 0

\* Line 150: disabled={!templatePdfBytes || !csvData.length || !templateFields.length}
GenerateButtonDisabled ==
    IsNull(templatePdfBytes) \/ Len(csvData) = 0 \/ Len(templateFields) = 0

\* The generate trigger can be used: the button is rendered and not disabled.
GenerateEnabled == TemplateControlsRendered /\ ~GenerateButtonDisabled

\* ---------------------------------------------------------- session events
\* Line 126: onClick={() => setIsTemplateMode(!isTemplateMode)}
ToggleTemplateMode ==
    /\ isTemplateMode' = ~isTemplateMode
    /\ UNCHANGED << pdfFile, templateFields, csvData, templatePdfBytes,
                    pendingRead, pendingParse, invocation, drops, ignoredClick >>

\* onDrop without the template-mode test: the bytes are always read.
onDropAlwaysStores ==
    /\ DropzoneRendered
    /\ \E file \in PdfFiles :
          /\ pdfFile' = Some(createObjectURL(file))
          /\ drops' = Append(drops, [file |-> file, mode |-> isTemplateMode])
          /\ pendingRead' = Some(arrayBuffer(file))
    /\ UNCHANGED << templateFields, csvData, isTemplateMode, templatePdfBytes,
                    pendingParse, invocation, ignoredClick >>

\* Lines 37-45: a file is dropped; it is displayed, and in template mode the
\* handler suspends reading its bytes.
onDrop ==
    /\ DropzoneRendered
    /\ \E file \in PdfFiles :
          /\ pdfFile' = Some(createObjectURL(file))
          /\ drops' = Append(drops, [file |-> file, mode |-> isTemplateMode])
          /\ pendingRead' = IF isTemplateMode THEN Some(arrayBuffer(file)) ELSE pendingRead
    /\ UNCHANGED << templateFields, csvData, isTemplateMode, templatePdfBytes,
                    pendingParse, invocation, ignoredClick >>

\* Lines 45-46: file.arrayBuffer() resolves and the bytes are stored.
onDropBytesRead ==
    /\ ~IsNull(pendingRead)
    /\ templatePdfBytes' = pendingRead
    /\ pendingRead' = Null
    /\ UNCHANGED << pdfFile, templateFields, csvData, isTemplateMode,
                    pendingParse, invocation, drops, ignoredClick >>

\* Line 45: file.arrayBuffer() rejects; line 46 is never reached.
onDropReadRejected ==
    /\ ~IsNull(pendingRead)
    /\ pendingRead' = Null
    /\ UNCHANGED << pdfFile, templateFields, csvData, isTemplateMode, templatePdfBytes,
                    pendingParse, invocation, drops, ignoredClick >>

\* Lines 52-61: a data file is chosen and Papa.parse starts on it (one parse
\* in flight at a time).
handleCSVUpload ==
    /\ TemplateControlsRendered
    /\ IsNull(pendingParse)
    /\ \E rows \in CsvFiles : pendingParse' = Some(rows)
    /\ UNCHANGED << pdfFile, templateFields, csvData, isTemplateMode, templatePdfBytes,
                    pendingRead, invocation, drops, ignoredClick >>

\* Lines 56-58: complete: (results) => setCsvData(results.data)
parseComplete ==
    /\ ~IsNull(pendingParse)
    /\ csvData' = Val(pendingParse)
    /\ pendingParse' = Null
    /\ UNCHANGED << pdfFile, templateFields, isTemplateMode, templatePdfBytes,
                    pendingRead, invocation, drops, ignoredClick >>

\* Lines 68-69: a pixel offset as a percentage of the box (the inputs are
\* chosen so that the division is exact).
PercentOf(offset, extent) == (offset * 100) \div extent

\* Lines 67-69 and 73: the field a click makes when the prompt gave `fieldName`.
NewField(click, fieldName) ==
    [ x |-> PercentOf(click.clientX - Rect.left, Rect.width),
      y |-> PercentOf(click.clientY - Rect.top, Rect.height),
      fieldName |-> fieldName ]

\* Line 72: if (fieldName) -- null and the empty string are falsy.
Accepted(answer) == ~IsNull(answer) /\ Val(answer) # ""

\* Lines 67-74: the handler past its mode test; the user is prompted and an
\* accepted name appends a field.
PromptAndAppend(click) ==
    IF Accepted(click.answer)
    THEN /\ Len(templateFields) < MaxFields
         /\ templateFields' = Append(templateFields, NewField(click, Val(click.answer)))
    ELSE UNCHANGED templateFields

\* The page click with neither the binding's nor the handler's mode test.
PageClickAnyMode ==
    /\ PageRendered
    /\ \E click \in Clicks : PromptAndAppend(click)
    /\ ignoredClick' = (ignoredClick \/ ~isTemplateMode)
    /\ UNCHANGED << pdfFile, csvData, isTemplateMode, templatePdfBytes,
                    pendingRead, pendingParse, invocation, drops >>

\* Lines 64-75 and 178: a click on the page container.  Outside template
\* mode no handler is bound (and the handler would return at once, line
\* 65); in template mode the handler runs.
PageClick ==
    /\ PageRendered
    /\ \E click \in Clicks :
          IF ~isTemplateMode
          THEN UNCHANGED templateFields
          ELSE PromptAndAppend(click)
    /\ ignoredClick' = (ignoredClick \/ ~isTemplateMode)
    /\ UNCHANGED << pdfFile, csvData, isTemplateMode, templatePdfBytes,
                    pendingRead, pendingParse, invocation, drops >>

\* --------------------------------------------------- the PDF document model
\* PDFDocument.load(bytes) throws on null and on bytes that are no PDF.
CanLoad(bytes) == ~IsNull(bytes) /\ Val(bytes).valid

\* PDFDocument.load(bytes): a new document object parsed from the bytes; the
\* bytes themselves are not changed.
LoadDocument(bytes) == [pages |-> Val(bytes).pages, fonts |-> 0]

\* doc.embedFont(StandardFonts.Helvetica): the document gains a font object.
embedFont(doc) == [doc EXCEPT !.fonts = @ + 1]

\* doc.getPages()[0].getSize()
getSize(doc) == [width |-> doc.pages[1].width, height |-> doc.pages[1].height]

\* doc.getPages()[0].drawText(...): the operation is added to the first page.
drawOnFirstPage(doc, op) == [doc EXCEPT !.pages[1].drawn = Append(@, op)]

\* doc.save(): the bytes of the document as it stands.
save(doc) == [valid |-> TRUE, pages |-> doc.pages]

\* Line 100: size: 12
FontSize == 12

\* ------------------------------------------------------------ row lookups
HasColumn(row, key) == \E i \in 1..Len(row) : row[i][1] = key
ColumnValue(row, key) == row[CHOOSE i \in 1..Len(row) : row[i][1] = key][2]

\* Property names every plain object inherits from Object.prototype.
ObjectPrototypeKeys ==
    { "constructor", "toString", "valueOf", "hasOwnProperty", "__proto__" }

\* row[key]: an own column's string, else an inherited member of
\* Object.prototype (a function or an object), else undefined.
GetProperty(row, key) ==
    IF HasColumn(row, key) THEN [kind |-> "string", str |-> ColumnValue(row, key)]
    ELSE IF key \in ObjectPrototypeKeys THEN [kind |-> "object", str |-> ""]
    ELSE [kind |-> "undefined", str |-> ""]

\* The left operand of `||` is falsy: undefined or the empty string.
Falsy(v) == v.kind = "undefined" \/ (v.kind = "string" /\ v.str = "")

\* Line 96: const text = row[field.fieldName] || ''
FieldText(row, field) ==
    LET v == GetProperty(row, field.fieldName)
    IN  IF Falsy(v) THEN [kind |-> "string", str |-> ""] ELSE v

\* drawText throws when `text` is no string, and when the font cannot
\* encode it.
DrawTextThrows(text) == text.kind # "string" \/ text.str = Unencodable

\* The position without the vertical flip.
DrawPositionNoFlip(field, width, height) ==
    [ x |-> (field.x * width) \div 100, y |-> (field.y * height) \div 100 ]

\* Lines 98-99: x: (field.x / 100) * width, y: height - (field.y / 100) * height
\* (the page sizes are multiples of 100, so the division is exact).
DrawPosition(field, width, height) ==
    [ x |-> (field.x * width) \div 100,
      y |-> height - (field.y * height) \div 100 ]

\* Lines 97-103: the text operation drawn for `field` of `row`.
DrawOp(row, field, width, height) ==
    [ text |-> FieldText(row, field).str,
      x |-> DrawPosition(field, width, height).x,
      y |-> DrawPosition(field, width, height).y,
      size |-> FontSize ]

\* A file name taken from the row's last column.
DownloadNameLastColumn(row) == "generated_" \o row[Len(row)][2] \o ".pdf"

\* Line 112: `generated_${row[Object.keys(row)[0]]}.pdf`
DownloadName(row) == "generated_" \o row[1][2] \o ".pdf"

\* Lines 79 and 118: the two alerts.
PreconditionNotice == "Please ensure you have a template PDF, CSV data, and template fields set"
FailureNotice == "Error generating PDFs. Please check the console for details."

\* ------------------------------------------------------------ generatePDFs
\* The test of line 78 without the field-list operand.
PreconditionFailsNoFieldTest(bytes, rows, fields) ==
    IsNull(bytes) \/ Len(rows) = 0

\* Line 78: !templatePdfBytes || !csvData.length || !templateFields.length
PreconditionFails(bytes, rows, fields) ==
    IsNull(bytes) \/ Len(rows) = 0 \/ Len(fields) = 0

\* An invocation as it starts: the state values its closure captured, its
\* locals, and what it has done so far.  pc names the await it is suspended
\* at: "load" (line 84), "embed" (85), "rowLoad" (91), "fieldFont" (101),
\* "save" (107), or "done"; "idle" before any call.
NewInvocation(bytes, rows, fields) ==
    [ pc |-> "idle",
      templatePdfBytes |-> bytes, csvData |-> rows, templateFields |-> fields,
      pdfDoc |-> Null, width |-> 0, height |-> 0,
      r |-> 0, f |-> 0, newPdf |-> Null,
      loads |-> 0, delivered |-> <<>>, alerts |-> <<>>, failed |-> Null ]

\* A catch inside the loop: the failure is reported and the next row is taken.
CatchAndContinue(g, step) ==
    IF g.r + 1 > Len(g.csvData)
    THEN [g EXCEPT !.pc = "done", !.newPdf = Null,
                   !.alerts = Append(@, FailureNotice),
                   !.failed = Some([step |-> step, row |-> g.r, field |-> g.f])]
    ELSE [g EXCEPT !.pc = "rowLoad", !.r = g.r + 1, !.f = 0, !.newPdf = Null,
                   !.loads = @ + 1,
                   !.alerts = Append(@, FailureNotice),
                   !.failed = Some([step |-> step, row |-> g.r, field |-> g.f])]

\* Lines 116-119: the catch clause; the invocation ends with one alert.
Catch(g, step) ==
    [g EXCEPT !.pc = "done",
              !.alerts = Append(@, FailureNotice),
              !.failed = Some([step |-> step, row |-> g.r, field |-> g.f])]

\* Lines 77-84: the call.  A failed precondition alerts and returns; else
\* the first PDFDocument.load is started and the function suspends.
Call(bytes, rows, fields) ==
    LET g == NewInvocation(bytes, rows, fields)
    IN  IF PreconditionFails(bytes, rows, fields)
        THEN [g EXCEPT !.pc = "done", !.alerts = <<PreconditionNotice>>]
        ELSE [g EXCEPT !.pc = "load", !.loads = 1]

\* Line 90: the for-of loop takes row n, or ends when there is none; taking
\* a row starts its PDFDocument.load (line 91).
EnterRow(g, n) ==
    IF n > Len(g.csvData)
    THEN [g EXCEPT !.pc = "done", !.r = 0, !.f = 0, !.newPdf = Null]
    ELSE [g EXCEPT !.pc = "rowLoad", !.r = n, !.f = 0, !.newPdf = Null,
                   !.loads = @ + 1]

\* Line 95: the inner loop takes field n (its embedFont is awaited, line
\* 101), or ends and newPdf.save() is awaited (line 107).
EnterField(g, n) ==
    IF n > Len(g.templateFields)
    THEN [g EXCEPT !.pc = "save", !.f = 0]
    ELSE [g EXCEPT !.pc = "fieldFont", !.f = n]

\* One document stamped row after row: the document of the row before, or
\* for the first row the one loaded at line 84.
RowDocumentShared(g) ==
    IF g.r = 1 THEN Val(g.pdfDoc)
    ELSE LoadDocument(Some(g.delivered[Len(g.delivered)].bytes))

\* Line 91: const newPdf = await PDFDocument.load(templatePdfBytes)
RowDocument(g) == LoadDocument(g.templatePdfBytes)

\* Lines 96-103 after the font is embedded: the text is drawn on the first
\* page of newPdf, or drawText throws.
DrawField(g) ==
    LET row == g.csvData[g.r]
        field == g.templateFields[g.f]
        doc == embedFont(Val(g.newPdf))
    IN  IF DrawTextThrows(FieldText(row, field))
        THEN Catch(g, "draw")
        ELSE EnterField(
               [g EXCEPT !.newPdf = Some(drawOnFirstPage(doc,
                                      DrawOp(row, field, g.width, g.height)))],
               g.f + 1)

\* Lines 107-115 after save() resolves: the bytes are offered for download
\* under the row's name, and the loop goes on.
Deliver(g) ==
    EnterRow(
      [g EXCEPT !.delivered = Append(@, [download |-> DownloadName(g.csvData[g.r]),
                                         bytes |-> save(Val(g.newPdf))])],
      g.r + 1)

\* A step that also empties the row list when the invocation ends.
ResumeClearingRows(g) ==
    /\ invocation' = g
    /\ csvData' = IF g.pc = "done" THEN <<>> ELSE csvData
    /\ UNCHANGED << pdfFile, templateFields, isTemplateMode, templatePdfBytes,
                    pendingRead, pendingParse, drops, ignoredClick >>

\* The invocation takes its next step to g; no state of the component changes.
Resume(g) ==
    /\ invocation' = g
    /\ UNCHANGED << pdfFile, templateFields, csvData, isTemplateMode, templatePdfBytes,
                    pendingRead, pendingParse, drops, ignoredClick >>

\* generatePDFs is called with the state of the current render.  It is
\* modelled as callable in every state: the button's disabled attribute
\* (GenerateButtonDisabled) is what keeps a click from reaching it.  One
\* invocation is followed at a time: a new call is made when none is in
\* flight, and the record of a finished one is replaced.
generatePDFs ==
    /\ invocation.pc \in {"idle", "done"}
    /\ Resume(Call(templatePdfBytes, csvData, templateFields))

\* Line 84 resolves or throws.
LoadResolved ==
    LET g == invocation
    IN  /\ g.pc = "load"
        /\ Resume(IF CanLoad(g.templatePdfBytes)
                  THEN [g EXCEPT !.pc = "embed",
                                 !.pdfDoc = Some(LoadDocument(g.templatePdfBytes))]
                  ELSE Catch(g, "load"))

\* Lines 85-90: embedFont resolves (or throws), the first page's size is
\* taken and the loop over the rows begins.
EmbedResolved ==
    LET g == invocation
        doc == embedFont(Val(g.pdfDoc))
    IN  /\ g.pc = "embed"
        /\ \E ok \in BOOLEAN :
              Resume(IF ok
                     THEN EnterRow([g EXCEPT !.pdfDoc = Some(doc),
                                             !.width = getSize(doc).width,
                                             !.height = getSize(doc).height], 1)
                     ELSE Catch(g, "embedFont"))

\* Lines 91-95: the row's document is loaded (or load throws) and the loop
\* over the fields begins.
RowLoadResolved ==
    LET g == invocation
    IN  /\ g.pc = "rowLoad"
        /\ Resume(IF CanLoad(g.templatePdfBytes)
                  THEN EnterField([g EXCEPT !.newPdf = Some(RowDocument(g))], 1)
                  ELSE Catch(g, "load"))

\* Lines 96-104: the field's embedFont resolves (or throws) and the text is
\* drawn (or drawText throws).
FieldFontResolved ==
    LET g == invocation
    IN  /\ g.pc = "fieldFont"
        /\ \E ok \in BOOLEAN :
              Resume(IF ok THEN DrawField(g) ELSE Catch(g, "embedFont"))

\* Lines 107-115: save resolves (or throws) and the document is delivered.
SaveResolved ==
    LET g == invocation
    IN  /\ g.pc = "save"
        /\ \E ok \in BOOLEAN :
              Resume(IF ok THEN Deliver(g) ELSE Catch(g, "save"))

\* ------------------------------------------------------------------- Init
\* The useState initial values (lines 22-26); nothing is in flight.
Init ==
    /\ pdfFile = Null
    /\ templateFields = <<>>
    /\ csvData = <<>>
    /\ isTemplateMode = FALSE
    /\ templatePdfBytes = Null
    /\ pendingRead = Null
    /\ pendingParse = Null
    /\ invocation = NewInvocation(Null, <<>>, <<>>)
    /\ drops = <<>>
    /\ ignoredClick = FALSE

\* --------------------------------------------------------------- behaviour
Next ==
    \/ ToggleTemplateMode
    \/ onDrop
    \/ onDropBytesRead
    \/ onDropReadRejected
    \/ handleCSVUpload
    \/ parseComplete
    \/ PageClick
    \/ generatePDFs
    \/ LoadResolved
    \/ EmbedResolved
    \/ RowLoadResolved
    \/ FieldFontResolved
    \/ SaveResolved

Spec == Init /\ [][Next]_vars

\* ------------------------------------------------------------ claim helpers
\* The call has been made.
Called == invocation.pc # "idle"

\* The text operations on page n of a saved document.
DrawnOn(bytes, n) == bytes.pages[n].drawn

\* The value of column `key` of `row`, and the empty string when `row` has
\* no such column.
ValueOrEmpty(row, key) == IF HasColumn(row, key) THEN ColumnValue(row, key) ELSE ""

\* The texts a document stamped from `row` alone carries, field by field.
RowTexts(row, fields) == [ j \in 1..Len(fields) |-> ValueOrEmpty(row, fields[j].fieldName) ]

\* The texts of the operations ops, in order.
TextsOf(ops) == [ j \in 1..Len(ops) |-> ops[j].text ]

\* No page of the bytes carries a drawn text.
Unstamped(bytes) == \A n \in 1..Len(bytes.pages) : DrawnOn(bytes, n) = <<>>

\* C1 (row isolation): every delivered document carries, on its first page,
\* exactly the field values of its own row and nothing drawn for another
\* row; the document being stamped carries only values of the current row;
\* and neither the retained template bytes nor the bytes the invocation
\* captured are ever stamped.
C1_RowIsolation ==
    LET g == invocation
    IN  /\ \A k \in 1..Len(g.delivered) :
              TextsOf(DrawnOn(g.delivered[k].bytes, 1)) = RowTexts(g.csvData[k], g.templateFields)
        /\ ~IsNull(g.newPdf) =>
              LET ops == Val(g.newPdf).pages[1].drawn
              IN  /\ Len(ops) <= Len(g.templateFields)
                  /\ TextsOf(ops) = SubSeq(RowTexts(g.csvData[g.r], g.templateFields), 1, Len(ops))
        /\ ~IsNull(g.templatePdfBytes) => Unstamped(Val(g.templatePdfBytes))
        /\ ~IsNull(templatePdfBytes) => Unstamped(Val(templatePdfBytes))

\* C1 witness: a finished batch of two rows and two fields, both documents
\* delivered, the rows' texts differing.
C1_Witness ==
    /\ invocation.pc = "done"
    /\ Len(invocation.delivered) = 2
    /\ Len(invocation.templateFields) = 2
    /\ TextsOf(DrawnOn(invocation.delivered[1].bytes, 1)) = <<"Alice", "a@x.org">>
    /\ TextsOf(DrawnOn(invocation.delivered[2].bytes, 1)) = <<"Bob", "">>

\* C2 as stated: the generate trigger is enabled exactly when template
\* bytes, fields and rows are all present.
C2_EnabledIffThreePresent ==
    GenerateEnabled <=>
        (~IsNull(templatePdfBytes) /\ templateFields # <<>> /\ csvData # <<>>)

\* C2 amended: the generate trigger is enabled exactly when template mode is
\* active and template bytes, fields and rows are all present.
C2_EnabledIffModeAndThreePresent ==
    GenerateEnabled <=>
        (isTemplateMode /\ ~IsNull(templatePdfBytes) /\ templateFields # <<>> /\ csvData # <<>>)

\* C2 witness: the trigger is disabled again by an upload of a data file
\* without records while bytes and fields are present in template mode.
C2_Witness ==
    /\ isTemplateMode /\ ~IsNull(templatePdfBytes) /\ templateFields # <<>>
    /\ csvData = <<>> /\ ~GenerateEnabled
    /\ invocation.pc = "done" /\ invocation.csvData # <<>>

\* C3 (precondition failure): an invocation called while the bytes are
\* missing or a list is empty has ended with the one precondition notice and
\* has loaded, drawn and delivered nothing.
C3_PreconditionFailure ==
    LET g == invocation
    IN  (Called /\ (IsNull(g.templatePdfBytes) \/ g.templateFields = <<>> \/ g.csvData = <<>>))
        => /\ g.pc = "done"
           /\ g.alerts = <<PreconditionNotice>>
           /\ g.loads = 0 /\ IsNull(g.pdfDoc) /\ IsNull(g.newPdf)
           /\ g.delivered = <<>>

\* C3 witness: a call made with bytes and rows present and no field.
C3_Witness ==
    /\ invocation.pc = "done"
    /\ ~IsNull(invocation.templatePdfBytes) /\ invocation.csvData # <<>>
    /\ invocation.templateFields = <<>>
    /\ invocation.alerts = <<PreconditionNotice>>

\* C4 (clicks outside template mode): no step taken while template mode is
\* off changes the field list, and every change of the field list is made in
\* template mode and appends one field with a non-empty name.
C4_ClickFrame ==
    [][ /\ ~isTemplateMode => templateFields' = templateFields
        /\ templateFields' # templateFields =>
              /\ isTemplateMode
              /\ Len(templateFields') = Len(templateFields) + 1
              /\ SubSeq(templateFields', 1, Len(templateFields)) = templateFields
              /\ templateFields'[Len(templateFields')].fieldName # "" ]_vars

\* C4 witness: a click was made outside template mode, with fields present.
C4_Witness == ignoredClick /\ ~isTemplateMode /\ templateFields # <<>>

\* C5 (abort on failure): once a step of the invocation has thrown, the
\* invocation is over with exactly one failure notice; the documents
\* delivered are those of the rows before the failing one, and every row up
\* to the failing one was loaded once (no retry).
C5_AbortOnFailure ==
    LET g == invocation
    IN  ~IsNull(g.failed) =>
           LET at == Val(g.failed).row
           IN  /\ g.pc = "done"
               /\ g.alerts = <<FailureNotice>>
               /\ Len(g.delivered) = (IF at = 0 THEN 0 ELSE at - 1)
               /\ g.loads = 1 + at

\* C5 witness: the second of three rows failed in drawText after the first
\* row's document was delivered.
C5_Witness ==
    /\ ~IsNull(invocation.failed)
    /\ Val(invocation.failed).step = "draw"
    /\ Val(invocation.failed).row = 2
    /\ Len(invocation.csvData) = 3
    /\ Len(invocation.delivered) = 1

\* The value under the row's first column.
FirstColumnValue(row) == row[1][2]

C7_MissingColumnNeverFails ==
    LET g == invocation
    IN  (~IsNull(g.failed) /\ Val(g.failed).step = "draw")
        => HasColumn(g.csvData[Val(g.failed).row],
                     g.templateFields[Val(g.failed).field].fieldName)

\* C8 (read-only): no step of the invocation -- the call, a resumption, the
\* return or the abort -- changes the template bytes, the field list or the
\* row list.
C8_SessionUntouched ==
    [][ invocation' # invocation => UNCHANGED sessionState ]_vars

\* C8 witness: a batch has ended with documents delivered.
C8_Witness ==
    /\ invocation.pc = "done" /\ invocation.delivered # <<>>
    /\ invocation.templateFields = templateFields
    /\ invocation.csvData = csvData
    /\ invocation.templatePdfBytes = templatePdfBytes

\* The operations ops are those of the fields, each at (x/100)*W and
\* H - (y/100)*H.
AtFieldPositions(ops, fields, W, H) ==
    /\ Len(ops) <= Len(fields)
    /\ \A j \in 1..Len(ops) :
          /\ ops[j].x * 100 = fields[j].x * W
          /\ (H - ops[j].y) * 100 = fields[j].y * H

\* C9 (draw position): in every delivered document and in the one in work,
\* text is drawn on the first page only, the j-th text at the position of
\* the j-th field on the template's first page, whatever the row.
C9_DrawPosition ==
    LET g == invocation
        W == Val(g.templatePdfBytes).pages[1].width
        H == Val(g.templatePdfBytes).pages[1].height
    IN  /\ \A k \in 1..Len(g.delivered) :
              LET bytes == g.delivered[k].bytes
              IN  /\ Len(DrawnOn(bytes, 1)) = Len(g.templateFields)
                  /\ AtFieldPositions(DrawnOn(bytes, 1), g.templateFields, W, H)
                  /\ \A n \in 2..Len(bytes.pages) : DrawnOn(bytes, n) = <<>>
        /\ ~IsNull(g.newPdf) =>
              /\ AtFieldPositions(Val(g.newPdf).pages[1].drawn, g.templateFields, W, H)
              /\ \A n \in 2..Len(Val(g.newPdf).pages) : Val(g.newPdf).pages[n].drawn = <<>>

\* C9 witness: on the 600 x 800 page the field {x: 10, y: 10} is drawn at
\* (60, 720) and the field {x: 50, y: 50} at (300, 400), in both documents.
C9_Witness ==
    /\ Len(invocation.delivered) = 2
    /\ invocation.templateFields =
          << [x |-> 10, y |-> 10, fieldName |-> "name"],
             [x |-> 50, y |-> 50, fieldName |-> "email"] >>
    /\ \A k \in 1..2 :
          LET ops == DrawnOn(invocation.delivered[k].bytes, 1)
          IN  /\ ops[1].x = 60 /\ ops[1].y = 720
              /\ ops[2].x = 300 /\ ops[2].y = 400

\* C10 (template bytes): the template bytes change only to the bytes of a
\* file that was dropped while template mode was active, and a toggle of
\* template mode leaves them as they are.
C10_BytesOnlyFromTemplateModeDrop ==
    [][ /\ templatePdfBytes' # templatePdfBytes =>
              \E d \in 1..Len(drops) :
                  /\ drops[d].mode
                  /\ templatePdfBytes' = Some(arrayBuffer(drops[d].file))
        /\ isTemplateMode' # isTemplateMode => templatePdfBytes' = templatePdfBytes ]_vars

\* C10 witness: a PDF was dropped while template mode was off and the mode
\* was switched on afterwards; no bytes are stored and none are being read.
C10_Witness ==
    /\ drops # <<>> /\ ~drops[1].mode
    /\ isTemplateMode
    /\ IsNull(templatePdfBytes) /\ IsNull(pendingRead)

====
